---------------------------- MODULE Spec2Model ----------------------------
(***************************************************************************)
(* dynaport: queries for TCP ports of the loopback interface that are not  *)
(* being used (src/src/lib.rs).                                            *)
(*                                                                         *)
(* Every query walks a port range in some order and probes each candidate  *)
(* by binding a TcpListener to 127.0.0.1:<port>; the listener is a         *)
(* temporary that is dropped (closed) when the probing expression ends.    *)
(* Binding and dropping are separate steps of the model, so that several   *)
(* callers can be interleaved.                                             *)
(*                                                                         *)
(* The two ranges keep their lower bounds (1024 and 49152) but are cut to  *)
(* RegisteredLen and DynamicLen ports (the dynamic range is the shorter    *)
(* one, as in the code); the queries only ever iterate over the range, so  *)
(* its length is the one thing that is scaled.                             *)
(***************************************************************************)
EXTENDS Integers, Sequences, FiniteSets, TLC

\* Ports of the registered range in the model (the code: 48128).
RegisteredLen == 4

\* Ports of the dynamic range in the model (the code: 16384).
DynamicLen == 2

\* First port of REGISTERED_PORTS_RANGE and of DYNAMIC_PORTS_RANGE.
RegisteredLower == 1024
DynamicLower == 49152

\* Threads that call the library.
NumCallers == 2

Callers == 1..NumCallers

Ranges == {"registered", "dynamic"}

\* number_of_ports arguments that are tried: 0 up to one more than the range holds.
Counts == 0..(RegisteredLen + 1)

Lower(r) == IF r = "registered" THEN RegisteredLower ELSE DynamicLower

RangeLen(r) == IF r = "registered" THEN RegisteredLen ELSE DynamicLen

Upper(r) == Lower(r) + RangeLen(r) - 1

\* lazy_static REGISTERED_PORTS_RANGE / DYNAMIC_PORTS_RANGE: (lower..=upper).collect()
PORTS_RANGE(r) == [i \in 1..RangeLen(r) |-> Lower(r) + i - 1]

RangeSet(r) == Lower(r)..Upper(r)

AllPorts == UNION {RangeSet(r) : r \in Ranges}

\* .iter().rev()
Rev(s) == [i \in 1..Len(s) |-> s[Len(s) + 1 - i]]

\* Mutant: shuffle that may repeat elements (sampling with replacement).
ShuffleWithRepeats(s) == [1..Len(s) -> {s[i] : i \in 1..Len(s)}]

\* ports.shuffle(&mut rand::thread_rng()): every permutation of s can come out.
Shuffle(s) ==
    {t \in [1..Len(s) -> {s[i] : i \in 1..Len(s)}] :
        \A i, j \in 1..Len(s) : i # j => t[i] # t[j]}

VARIABLES
    held,     \* ports bound by listeners that are not the library's probes
    pc,       \* per caller: "idle", "loop", "probe", "done"
    kind,     \* per caller: the query running
    rng,      \* per caller: the range the query walks
    want,     \* per caller: number_of_ports
    order,    \* per caller: the sequence the for loop iterates over
    idx,      \* per caller: position of the iterator in order
    ports,    \* per caller: the Vec collected by an n-ports query
    open,     \* per caller: ports of the probe listeners the caller has open
    bound,    \* per caller: the is_ok() of the probe in progress
    probes,   \* per caller: ports on which bind was attempted, in order
    result    \* per caller: the value returned

vars == <<held, pc, kind, rng, want, order, idx, ports, open, bound, probes,
          result>>

NoResult == [tag |-> "none", port |-> 0, ports |-> <<>>, wanted |-> 0, got |-> 0]

SomePort(p) == [tag |-> "Some", port |-> p, ports |-> <<>>, wanted |-> 0, got |-> 0]

NonePort == [tag |-> "None", port |-> 0, ports |-> <<>>, wanted |-> 0, got |-> 0]

OkPorts(ps) == [tag |-> "Ok", port |-> 0, ports |-> ps, wanted |-> 0, got |-> 0]

\* Mutant: the error reports the request as what was found.
NotEnoughPortsWantedTwice(n, ps) ==
    [tag |-> "Err", port |-> 0, ports |-> <<>>, wanted |-> n, got |-> n]

\* Err(DynaportError::NotEnoughPorts { wanted: number_of_ports, got: ports.len() })
NotEnoughPorts(n, ps) ==
    [tag |-> "Err", port |-> 0, ports |-> <<>>, wanted |-> n, got |-> Len(ps)]

\* Every port some listener is bound to: foreign listeners and probes in progress.
Occupied == held \cup UNION {open[c] : c \in Callers}

\* Mutant: bind that other probes do not block (as with SO_REUSEPORT).
BindOkReusePort(p) == p \notin held

\* Mutant: bind that never fails.
BindAlwaysOk(p) == TRUE

\* TcpListener::bind(format!("127.0.0.1:{}", port)).is_ok()
BindOk(p) == p \notin Occupied

\* Mutant: the probe listener is kept (e.g. stored) instead of dropped.
KeepListener(c, p) == open[c]

\* The temporary TcpListener is dropped when the probing expression ends.
DropListener(c, p) == open[c] \ {p}

\* Mutant: the count is only looked at once something was collected.
ReachedCountNonZero(ps, n) == Len(ps) = n /\ n > 0

\* if ports.len() == number_of_ports
ReachedCount(ps, n) == Len(ps) = n

\* Mutant: the descending queries forget .rev().
ScanOrderNoRev(k, r) ==
    IF k = "random" THEN Shuffle(PORTS_RANGE(r)) ELSE {PORTS_RANGE(r)}

\* Mutant: the descending queries iterate an exclusive range (lower..upper).rev().
ScanOrderRevSkipUpper(k, r) ==
    IF k = "random" THEN Shuffle(PORTS_RANGE(r))
    ELSE IF k \in {"highest", "highest_n"} THEN {Tail(Rev(PORTS_RANGE(r)))}
    ELSE {PORTS_RANGE(r)}

\* Mutant: the ascending queries start one past the lower bound.
ScanOrderSkipFirst(k, r) ==
    IF k = "random" THEN Shuffle(PORTS_RANGE(r))
    ELSE IF k \in {"highest", "highest_n"} THEN {Rev(PORTS_RANGE(r))}
    ELSE {Tail(PORTS_RANGE(r))}

\* The sequences the for loop of query k may iterate over.
ScanOrder(k, r) ==
    IF k = "random" THEN Shuffle(PORTS_RANGE(r))
    ELSE IF k \in {"highest", "highest_n"} THEN {Rev(PORTS_RANGE(r))}
    ELSE {PORTS_RANGE(r)}

IsNQuery(k) == k \in {"lowest_n", "highest_n"}

Init ==
    /\ held = {}
    /\ pc = [c \in Callers |-> "idle"]
    /\ kind = [c \in Callers |-> "none"]
    /\ rng = [c \in Callers |-> "registered"]
    /\ want = [c \in Callers |-> 0]
    /\ order = [c \in Callers |-> <<>>]
    /\ idx = [c \in Callers |-> 1]
    /\ ports = [c \in Callers |-> <<>>]
    /\ open = [c \in Callers |-> {}]
    /\ bound = [c \in Callers |-> FALSE]
    /\ probes = [c \in Callers |-> <<>>]
    /\ result = [c \in Callers |-> NoResult]

\* Entry of a query: the iterator is created, nothing is collected or probed yet.
Enter(c, k, r, n, o) ==
    /\ pc[c] = "idle"
    /\ pc' = [pc EXCEPT ![c] = "loop"]
    /\ kind' = [kind EXCEPT ![c] = k]
    /\ rng' = [rng EXCEPT ![c] = r]
    /\ want' = [want EXCEPT ![c] = n]
    /\ order' = [order EXCEPT ![c] = o]
    /\ idx' = [idx EXCEPT ![c] = 1]
    /\ ports' = [ports EXCEPT ![c] = <<>>]
    /\ probes' = [probes EXCEPT ![c] = <<>>]
    /\ result' = [result EXCEPT ![c] = NoResult]
    /\ UNCHANGED <<held, open, bound>>

random_port(c, r) == \E o \in ScanOrder("random", r) : Enter(c, "random", r, 0, o)

lowest_port(c, r) == \E o \in ScanOrder("lowest", r) : Enter(c, "lowest", r, 0, o)

highest_port(c, r) == \E o \in ScanOrder("highest", r) : Enter(c, "highest", r, 0, o)

lowest_n_ports(c, r, n) ==
    \E o \in ScanOrder("lowest_n", r) : Enter(c, "lowest_n", r, n, o)

highest_n_ports(c, r, n) ==
    \E o \in ScanOrder("highest_n", r) : Enter(c, "highest_n", r, n, o)

\* An n-ports query finds its Vec full at the top of an iteration: return Ok(ports).
ReturnOk(c) ==
    /\ pc[c] = "loop"
    /\ IsNQuery(kind[c])
    /\ idx[c] <= Len(order[c])
    /\ ReachedCount(ports[c], want[c])
    /\ result' = [result EXCEPT ![c] = OkPorts(ports[c])]
    /\ pc' = [pc EXCEPT ![c] = "done"]
    /\ UNCHANGED <<held, kind, rng, want, order, idx, ports, open, bound, probes>>

\* The bind of the probe of the next candidate.
Bind(c) ==
    /\ pc[c] = "loop"
    /\ idx[c] <= Len(order[c])
    /\ IsNQuery(kind[c]) => ~ReachedCount(ports[c], want[c])
    /\ LET p == order[c][idx[c]]
           ok == BindOk(p)
       IN  /\ bound' = [bound EXCEPT ![c] = ok]
           /\ open' = [open EXCEPT ![c] = IF ok THEN open[c] \cup {p} ELSE open[c]]
           /\ probes' = [probes EXCEPT ![c] = Append(probes[c], p)]
    /\ pc' = [pc EXCEPT ![c] = "probe"]
    /\ UNCHANGED <<held, kind, rng, want, order, idx, ports, result>>

\* The probe's listener is dropped, and the query acts on is_ok(): a single-port
\* query returns Some(port), an n-ports query pushes the port; on failure the
\* loop goes on to the next candidate.
Release(c) ==
    /\ pc[c] = "probe"
    /\ LET p == order[c][idx[c]]
       IN  /\ open' = [open EXCEPT ![c] = DropListener(c, p)]
           /\ IF bound[c] /\ ~IsNQuery(kind[c])
              THEN /\ result' = [result EXCEPT ![c] = SomePort(p)]
                   /\ pc' = [pc EXCEPT ![c] = "done"]
                   /\ UNCHANGED <<idx, ports>>
              ELSE /\ ports' = [ports EXCEPT ![c] =
                                  IF bound[c] THEN Append(ports[c], p) ELSE ports[c]]
                   /\ idx' = [idx EXCEPT ![c] = idx[c] + 1]
                   /\ pc' = [pc EXCEPT ![c] = "loop"]
                   /\ UNCHANGED result
    /\ bound' = [bound EXCEPT ![c] = FALSE]
    /\ UNCHANGED <<held, kind, rng, want, order, probes>>

\* The iterator is exhausted: None, or Err(NotEnoughPorts) after the loop.
Exhausted(c) ==
    /\ pc[c] = "loop"
    /\ idx[c] > Len(order[c])
    /\ result' = [result EXCEPT ![c] =
                    IF IsNQuery(kind[c]) THEN NotEnoughPorts(want[c], ports[c])
                    ELSE NonePort]
    /\ pc' = [pc EXCEPT ![c] = "done"]
    /\ UNCHANGED <<held, kind, rng, want, order, idx, ports, open, bound, probes>>

\* The caller has taken the result; it may call again.
Finish(c) ==
    /\ pc[c] = "done"
    /\ pc' = [pc EXCEPT ![c] = "idle"]
    /\ kind' = [kind EXCEPT ![c] = "none"]
    /\ rng' = [rng EXCEPT ![c] = "registered"]
    /\ want' = [want EXCEPT ![c] = 0]
    /\ order' = [order EXCEPT ![c] = <<>>]
    /\ idx' = [idx EXCEPT ![c] = 1]
    /\ ports' = [ports EXCEPT ![c] = <<>>]
    /\ probes' = [probes EXCEPT ![c] = <<>>]
    /\ result' = [result EXCEPT ![c] = NoResult]
    /\ UNCHANGED <<held, open, bound>>

AllIdle == \A c \in Callers : pc[c] = "idle"

\* A listener is bound and held between two queries (the tests' listeners.push).
Listen(p) ==
    /\ AllIdle
    /\ p \notin Occupied
    /\ held' = held \cup {p}
    /\ UNCHANGED <<pc, kind, rng, want, order, idx, ports, open, bound, probes,
                   result>>

\* A held listener is closed between two queries.
Close(p) ==
    /\ AllIdle
    /\ p \in held
    /\ held' = held \ {p}
    /\ UNCHANGED <<pc, kind, rng, want, order, idx, ports, open, bound, probes,
                   result>>

Call(c) ==
    \E r \in Ranges :
        \/ random_port(c, r)
        \/ lowest_port(c, r)
        \/ highest_port(c, r)
        \/ \E n \in Counts : lowest_n_ports(c, r, n)
        \/ \E n \in Counts : highest_n_ports(c, r, n)

Step(c) ==
    \/ Call(c)
    \/ ReturnOk(c)
    \/ Bind(c)
    \/ Release(c)
    \/ Exhausted(c)
    \/ Finish(c)

\* One caller; the occupancy of the ports only changes between its queries.
Next ==
    \/ Step(1)
    \/ \E p \in AllPorts : Listen(p)
    \/ \E p \in AllPorts : Close(p)

Spec == Init /\ [][Next]_vars


\* The queries run concurrently: the ascending ones, on the registered range.
CallConc(c) ==
    \/ lowest_port(c, "registered")
    \/ lowest_n_ports(c, "registered", 3)

StepConc(c) ==
    \/ CallConc(c)
    \/ ReturnOk(c)
    \/ Bind(c)
    \/ Release(c)
    \/ Exhausted(c)
    \/ Finish(c)

\* Several callers run queries concurrently; nothing else binds a port.
NextConc == \E c \in Callers : StepConc(c)

ConcSpec == Init /\ [][NextConc]_vars

-----------------------------------------------------------------------------
(* What the claims are stated with. *)

\* The ports of range r no foreign listener holds.
Free(r) == RangeSet(r) \ held

Elems(s) == {s[i] : i \in 1..Len(s)}

Returned(c, k) == pc[c] = "done" /\ kind[c] = k

ReturnedN(c) == pc[c] = "done" /\ IsNQuery(kind[c])

StrictlyAscending(s) == \A i, j \in 1..Len(s) : i < j => s[i] < s[j]

StrictlyDescending(s) == \A i, j \in 1..Len(s) : i < j => s[i] > s[j]

-----------------------------------------------------------------------------

\* C1: whenever the range holds at least number_of_ports free ports, the n-ports
\* queries return Ok with that many ports; every NotEnoughPorts has got < wanted.
C1_OkWheneverEnoughFree ==
    \A c \in Callers :
        ReturnedN(c) =>
            /\ Cardinality(Free(rng[c])) >= want[c] =>
                   /\ result[c].tag = "Ok"
                   /\ Len(result[c].ports) = want[c]
            /\ result[c].tag = "Err" => result[c].got < result[c].wanted

\* C2: an Ok of lowest_n_ports holds exactly number_of_ports ports, strictly
\* ascending, all free and in the range, and they are the lowest free ports of the
\* range; with nothing occupied and number_of_ports = 3: [lower, lower+1, lower+2].
C2_LowestNOk ==
    \A c \in Callers :
        (Returned(c, "lowest_n") /\ result[c].tag = "Ok") =>
            LET ps == result[c].ports
                r == rng[c]
            IN  /\ Len(ps) = want[c]
                /\ StrictlyAscending(ps)
                /\ Elems(ps) \subseteq Free(r)
                /\ \A q \in Free(r) \ Elems(ps) : \A p \in Elems(ps) : p < q
                /\ (Free(r) = RangeSet(r) /\ want[c] = 3) =>
                       ps = <<Lower(r), Lower(r) + 1, Lower(r) + 2>>

\* C2 witness: an Ok of at least two ports that skipped an occupied port in between.
C2_Witness ==
    \E c \in Callers :
        /\ Returned(c, "lowest_n")
        /\ result[c].tag = "Ok"
        /\ Len(result[c].ports) >= 2
        /\ \E h \in held :
               result[c].ports[1] < h /\ h < result[c].ports[Len(result[c].ports)]

\* C3: an Ok of highest_n_ports holds exactly number_of_ports ports, strictly
\* descending from the highest free port of the range, and they are the highest
\* free ports; with nothing occupied and number_of_ports = 3: [upper, upper-1, upper-2].
C3_HighestNOk ==
    \A c \in Callers :
        (Returned(c, "highest_n") /\ result[c].tag = "Ok") =>
            LET ps == result[c].ports
                r == rng[c]
            IN  /\ Len(ps) = want[c]
                /\ StrictlyDescending(ps)
                /\ Elems(ps) \subseteq Free(r)
                /\ Len(ps) > 0 => \A q \in Free(r) : q <= ps[1]
                /\ \A q \in Free(r) \ Elems(ps) : \A p \in Elems(ps) : q < p
                /\ (Free(r) = RangeSet(r) /\ want[c] = 3) =>
                       ps = <<Upper(r), Upper(r) - 1, Upper(r) - 2>>

\* C3 witness: an Ok of at least two ports that skipped an occupied port in between.
C3_Witness ==
    \E c \in Callers :
        /\ Returned(c, "highest_n")
        /\ result[c].tag = "Ok"
        /\ Len(result[c].ports) >= 2
        /\ \E h \in held :
               result[c].ports[Len(result[c].ports)] < h /\ h < result[c].ports[1]

\* C4: when number_of_ports exceeds the number F of free ports of the range, the
\* n-ports queries return NotEnoughPorts{wanted: number_of_ports, got: F}; a count
\* larger than the range always fails.
C4_NotEnoughReportsFree ==
    \A c \in Callers :
        ReturnedN(c) =>
            /\ want[c] > Cardinality(Free(rng[c])) =>
                   /\ result[c].tag = "Err"
                   /\ result[c].wanted = want[c]
                   /\ result[c].got = Cardinality(Free(rng[c]))
            /\ want[c] > RangeLen(rng[c]) => result[c].tag = "Err"

\* C4 witness: a NotEnoughPorts that found some ports, fewer than the range holds.
C4_Witness ==
    \E c \in Callers :
        /\ ReturnedN(c)
        /\ result[c].tag = "Err"
        /\ result[c].got > 0
        /\ result[c].got < RangeLen(rng[c])
        /\ result[c].got < result[c].wanted

\* C5: lowest_port returns Some(minimum free port of the range): the lower bound
\* when nothing is occupied, lower+k when exactly the k lowest ports are held;
\* None exactly when every port of the range is occupied; never an error.
C5_LowestPort ==
    \A c \in Callers :
        Returned(c, "lowest") =>
            LET r == rng[c]
            IN  /\ result[c].tag \in {"Some", "None"}
                /\ result[c].tag = "None" <=> Free(r) = {}
                /\ result[c].tag = "Some" =>
                       /\ result[c].port \in Free(r)
                       /\ \A q \in Free(r) : result[c].port <= q
                /\ \A k \in 0..(RangeLen(r) - 1) :
                       held \cap RangeSet(r) = Lower(r)..(Lower(r) + k - 1) =>
                           result[c] = SomePort(Lower(r) + k)

\* C5 witness: the lowest ports are held and lowest_port returned the one after them.
C5_Witness ==
    \E c \in Callers :
        /\ Returned(c, "lowest")
        /\ result[c].tag = "Some"
        /\ result[c].port >= Lower(rng[c]) + 2
        /\ held \cap RangeSet(rng[c]) = Lower(rng[c])..(result[c].port - 1)

\* C6: highest_port returns Some(maximum free port of the range): the upper bound
\* when nothing is occupied, upper-k when exactly the k highest ports are held;
\* None exactly when every port of the range is occupied.
C6_HighestPort ==
    \A c \in Callers :
        Returned(c, "highest") =>
            LET r == rng[c]
            IN  /\ result[c].tag \in {"Some", "None"}
                /\ result[c].tag = "None" <=> Free(r) = {}
                /\ result[c].tag = "Some" =>
                       /\ result[c].port \in Free(r)
                       /\ \A q \in Free(r) : q <= result[c].port
                /\ \A k \in 0..(RangeLen(r) - 1) :
                       held \cap RangeSet(r) = (Upper(r) - k + 1)..Upper(r) =>
                           result[c] = SomePort(Upper(r) - k)

\* C6 witness: the highest ports are held and highest_port returned the one below them.
C6_Witness ==
    \E c \in Callers :
        /\ Returned(c, "highest")
        /\ result[c].tag = "Some"
        /\ result[c].port <= Upper(rng[c]) - 2
        /\ held \cap RangeSet(rng[c]) = (result[c].port + 1)..Upper(rng[c])

\* C7: for every permutation of the shuffle, random_port returns Some(p) with p in
\* the range and free whenever a port of the range is free, None only when the
\* whole range is occupied, and probes every port at most once.
C7_RandomPort ==
    \A c \in Callers :
        /\ kind[c] = "random" =>
               \A i, j \in 1..Len(probes[c]) : i # j => probes[c][i] # probes[c][j]
        /\ Returned(c, "random") =>
               LET r == rng[c]
               IN  /\ result[c].tag \in {"Some", "None"}
                   /\ Free(r) # {} =>
                          /\ result[c].tag = "Some"
                          /\ Lower(r) <= result[c].port
                          /\ result[c].port <= Upper(r)
                          /\ result[c].port \in Free(r)
                   /\ result[c].tag = "None" => Free(r) = {}

\* C7 witness: random_port returned a free port after probing two occupied ones.
C7_Witness ==
    \E c \in Callers :
        /\ Returned(c, "random")
        /\ result[c].tag = "Some"
        /\ Len(probes[c]) >= 3
        /\ Free(rng[c]) # {result[c].port}

\* C8: with number_of_ports = 0 the n-ports queries return Ok with an empty Vec,
\* whatever the occupancy of the range, without a single bind.
C8_ZeroPorts ==
    \A c \in Callers :
        (IsNQuery(kind[c]) /\ want[c] = 0) =>
            /\ probes[c] = <<>>
            /\ pc[c] \in {"loop", "done"}
            /\ pc[c] = "done" => result[c] = OkPorts(<<>>)

\* C8 witness: a query for 0 ports returned on a range that is fully occupied.
C8_Witness ==
    \E c \in Callers :
        /\ ReturnedN(c)
        /\ want[c] = 0
        /\ Free(rng[c]) = {}

\* C9: a query has at most one probe listener open, none when it goes on to the
\* next candidate and none when it returns; when it returns, the occupied ports
\* are those occupied before the call (the held ones, which do not change during
\* a call), and every port returned can be bound.
C9_ProbeReleased ==
    \A c \in Callers :
        /\ Cardinality(open[c]) <= 1
        /\ pc[c] \in {"idle", "loop", "done"} => open[c] = {}
        /\ pc[c] = "done" =>
               /\ Occupied = held
               /\ result[c].tag = "Some" => BindOk(result[c].port)
               /\ \A p \in Elems(result[c].ports) : BindOk(p)

\* C9 witness: a query returned after at least two successful probes and one that failed.
C9_Witness ==
    \E c \in Callers :
        /\ ReturnedN(c)
        /\ result[c].tag = "Ok"
        /\ Len(result[c].ports) >= 2
        /\ Len(probes[c]) > Len(result[c].ports)
        /\ Occupied # {}

C10_ProbedInOrder ==
    \A c \in Callers :
        /\ kind[c] \in {"lowest", "lowest_n"} =>
               \A i \in 1..Len(probes[c]) : probes[c][i] = Lower(rng[c]) + i - 1
        /\ (Returned(c, "lowest") /\ result[c].tag = "Some") =>
               result[c].port = probes[c][Len(probes[c])]
        /\ (Returned(c, "lowest") /\ result[c].tag = "None") =>
               Elems(probes[c]) = RangeSet(rng[c])
        /\ (Returned(c, "lowest_n") /\ want[c] = 3 /\ result[c].tag = "Ok") =>
               /\ Len(result[c].ports) = 3
               /\ StrictlyAscending(result[c].ports)
               /\ Elems(result[c].ports) \subseteq Elems(probes[c])

\* A bind fails exactly when a listener is open on the port at that moment: a held
\* one, or the probe listener of another caller.
C10_BindFailsOnlyOnOpenListener ==
    \A c \in Callers :
        (pc[c] = "loop" /\ pc'[c] = "probe") =>
            (bound'[c] <=>
                /\ order[c][idx[c]] \notin held
                /\ \A d \in Callers \ {c} : order[c][idx[c]] \notin open[d])

=============================================================================
